---- MODULE Spec2Model ----
(***************************************************************************)
(* Model of the Map Action incident-analysis service.                      *)
(*                                                                         *)
(*   app/services/analysis/incident_analysis.py                            *)
(*       analyze_incident_zone, analyze_vegetation_and_water,              *)
(*       analyze_land_cover, generate_ndvi_ndwi_plot,                      *)
(*       generate_ndvi_heatmap, generate_landcover_plot,                   *)
(*       generate_textual_analysis, create_geojson_from_location           *)
(*   app/services/llm/gpt_3_5_turbo.py                                     *)
(*       get_assistant_response, get_response, chat_response               *)
(*                                                                         *)
(* Every function of the two modules is one action: the action draws the   *)
(* call's arguments and the answers of the external services from bounded  *)
(* sets, runs the function body and records the call in op / args / ret.   *)
(* The process-wide state the functions share lives in messages (the       *)
(* module-level chat history) and figures (pyplot's registry of open       *)
(* figures).  get_response writes messages before and after it waits for   *)
(* the completion service, so it is three steps for each of its callers    *)
(* (calls).                                                                *)
(*                                                                         *)
(* Text: the French strings of the code are written without their accents *)
(* (the incident type with an acute accent on its first e is written       *)
(* "Deforestation").                                                       *)
(*                                                                         *)
(* Numbers: index values are carried in tenths (NDVI 0.3 is 3); a mean or  *)
(* a share is the IEEE double the code computes, see Round53.              *)
(***************************************************************************)
EXTENDS Integers, Sequences, FiniteSets, TLC

VARIABLES
    op,        \* name of the function called last ("" before any call)
    args,      \* the arguments (and external answers) of that call
    ret,       \* its outcome: a returned value or a raised exception
    heap,      \* the argument objects the call has changed, as it left them
    messages,  \* gpt_3_5_turbo.messages, the module-level chat history
    figures,   \* matplotlib.pyplot's open figures, the last one is current
    calls      \* the get_response calls under way, one per caller

vars == <<op, args, ret, heap, messages, figures, calls>>

\* The callers that may be inside get_response at the same time, and the
\* state with none of them inside.
Callers == {1, 2}

Idle == [at |-> "idle"]

NoCalls == [c \in Callers |-> Idle]

----------------------------------------------------------------------------
(* Outcomes of a call *)

Return(v) == [status |-> "return", exc |-> "", value |-> v]

Raise(e) == [status |-> "raise", exc |-> e, value |-> <<>>]

NoCall == [status |-> "none", exc |-> "", value |-> <<>>]

Returned(r) == r.status = "return"

Raised(r) == r.status = "raise"

----------------------------------------------------------------------------
(* Bounds *)

MaxLen == 3          \* longest NDVI series given to the narrative

----------------------------------------------------------------------------
(* Sequences and arithmetic *)

RECURSIVE SumSeq(_)
SumSeq(s) == IF s = <<>> THEN 0 ELSE Head(s) + SumSeq(Tail(s))

Abs(n) == IF n < 0 THEN -n ELSE n

Contains(s, x) == \E i \in 1..Len(s) : s[i] = x

Count(s, x) == Cardinality({i \in 1..Len(s) : s[i] = x})

\* The sequences over S of length at most n.
SeqUpTo(S, n) == UNION {[1..k -> S] : k \in 0..n}

\* The sequences over S of length at most n without a repeated element.
DistinctSeqUpTo(S, n) ==
    {s \in SeqUpTo(S, n) : \A i, j \in 1..Len(s) : i # j => s[i] # s[j]}

(* IEEE 754 binary64.  A double x is <<p, q, f>> with q > 0:                *)
(*     x = p/q + f / (q * 2^64)                                            *)
(* the fraction p/q the decimal arithmetic would give, and the distance f  *)
(* of the double from it, counted in units of 2^-64 / q.  Doubles of       *)
(* magnitude 2^-12 and more are carried exactly; a double with p = 0 and   *)
(* f # 0 is what is left when the fractions cancel (magnitude below        *)
(* 2^-50), of which the sign is kept.                                      *)

Sign(n) == IF n > 0 THEN 1 ELSE IF n < 0 THEN -1 ELSE 0

\* floor(log2(a / q)) for a, q >= 1.
RECURSIVE Log2Floor(_, _)
Log2Floor(a, q) ==
    IF a >= 2 * q THEN Log2Floor(a, 2 * q) + 1
    ELSE IF a < q THEN Log2Floor(2 * a, q) - 1
    ELSE 0

\* 2^m mod q, thirty doublings at a time.
RECURSIVE Pow2Mod(_, _)
Pow2Mod(m, q) ==
    IF m <= 30 THEN 2^m % q
    ELSE ((2^30 % q) * Pow2Mod(m - 30, q)) % q

\* The binary exponent of the double a/q + g units (a, q >= 1), given
\* e0 = floor(log2(a/q)): a double just below a power of two lies in the
\* binade under it.
Exponent(a, q, g, e0) ==
    IF g < 0 /\ (IF e0 >= 0 THEN a = q * 2^e0 ELSE a * 2^(-e0) = q)
    THEN e0 - 1
    ELSE e0

\* The multiple of ulp nearest to a * 2^64 + g, ties to the even multiple,
\* given rem, that number modulo 2 ulp; sign is the sign of the double.
Nearest(p, q, g, ulp, rem) ==
    LET r == rem % ulp
    IN  <<p, q, Sign(p) * (IF 2 * r > ulp \/ (2 * r = ulp /\ rem >= ulp)
                           THEN g - r + ulp
                           ELSE g - r)>>

\* With e the binary exponent of x, one unit in the last place is
\* 2^(e-52), that is q * 2^(e+12) units of f; a * 2^64 modulo 2 ulp is
\* 2^(e+13) * (a * 2^(51-e) mod q).
RoundAt(x, e) ==
    IF e + 12 < 0 THEN x
    ELSE Nearest(x[1], x[2], Sign(x[1]) * x[3], x[2] * 2^(e + 12),
                 (2^(e + 13) * (((Abs(x[1]) % x[2]) * Pow2Mod(51 - e, x[2])) % x[2])
                     + Sign(x[1]) * x[3]) % (x[2] * 2^(e + 13)))

\* Round to nearest, ties to even, at 53 significant bits: the rounding of
\* every double operation and of the conversion of a literal.
Round53(x) ==
    IF x[1] = 0 THEN x
    ELSE RoundAt(x, Exponent(Abs(x[1]), x[2], Sign(x[1]) * x[3],
                             Log2Floor(Abs(x[1]), x[2])))

\* The double of the literal or quotient p/q (float('0.3'), 1 / 3).
Float(p, q) == Round53(<<p, q, 0>>)

\* The doubles of the tenths from k/10 to 1.0, in order.
RECURSIVE TenthsFrom(_)
TenthsFrom(k) == IF k > 10 THEN <<>> ELSE <<Float(k, 10)>> \o TenthsFrom(k + 1)

\* The doubles of -1.0, -0.9, ..., 1.0: the range of a normalised
\* difference index.
TenthDoubles == TenthsFrom(-10)

\* The double of an index value given in tenths.
Double(k) == IF k >= -10 /\ k <= 10 THEN TenthDoubles[k + 11] ELSE Float(k, 10)

\* x + y
FloatAdd(x, y) ==
    Round53(IF x[2] = y[2]
            THEN <<x[1] + y[1], x[2], x[3] + y[3]>>
            ELSE <<x[1] * y[2] + y[1] * x[2], x[2] * y[2],
                   x[3] * y[2] + y[3] * x[2]>>)

\* x / n and x * n for an integer n >= 1
FloatDiv(x, n) == Round53(<<x[1], x[2] * n, x[3]>>)

FloatMul(x, n) == Round53(<<x[1] * n, x[2], x[3] * n>>)

\* x > y
FloatGT(x, y) ==
    LET l == x[1] * y[2]
        r == y[1] * x[2]
    IN  l > r \/ (l = r /\ x[3] * y[2] > y[3] * x[2])

\* The sum of the first k entries of a series of tenths, added in order
\* from 0.0 (numpy adds fewer than 8 entries one after the other).
RECURSIVE FloatSum(_, _)
FloatSum(s, k) ==
    IF k = 0 THEN <<0, 10, 0>>
    ELSE FloatAdd(FloatSum(s, k - 1), Double(s[k]))

Pad(n, width) ==
    IF width = 2 /\ n < 10 THEN "0" \o ToString(n) ELSE ToString(n)

\* format(x, '.<d>f') for d in {1, 2}: sign, integer part, '.', d digits,
\* the digits of the decimal nearest to the double; when the fraction p/q
\* lies half-way between two decimals the side of the double decides, and
\* a double that is that half-way value goes to the even digit.
FormatFixed(x, d) ==
    LET scale == IF d = 1 THEN 10 ELSE 100
        sign  == IF x[1] # 0 THEN Sign(x[1]) ELSE Sign(x[3])
        g     == sign * x[3]
        n     == Abs(x[1]) * scale
        quo   == n \div x[2]
        r     == n % x[2]
        up    == \/ 2 * r > x[2]
                 \/ 2 * r = x[2] /\ (g > 0 \/ (g = 0 /\ quo % 2 = 1))
        m     == IF up THEN quo + 1 ELSE quo
    IN  (IF sign < 0 THEN "-" ELSE "")
            \o ToString(m \div scale) \o "." \o Pad(m % scale, d)

----------------------------------------------------------------------------
(* pandas DataFrame: the ordered column names and the rows, each row a     *)
(* function from column name to value.                                     *)

DataFrame(cols, rows) == [columns |-> cols, rows |-> rows]

Column(df, c) == [i \in 1..Len(df.rows) |-> df.rows[i][c]]

\* Series.mean() of a series of tenths: the double sum of the entries
\* divided by their number (NaN when empty, which the callers below never
\* compare: they raise first).
SeriesMean(s) == FloatDiv(FloatSum(s, Len(s)), Len(s))

\* Python dict as the ordered sequence of its <<key, value>> items.
DictKeys(d) == [i \in 1..Len(d) |-> d[i][1]]

DictValues(d) == [i \in 1..Len(d) |-> d[i][2]]

DictHas(d, k) == \E i \in 1..Len(d) : d[i][1] = k

DictGet(d, k) == d[CHOOSE i \in 1..Len(d) : d[i][1] = k][2]

\* d[k] = v: an existing key keeps its position and takes the new value,
\* a new key goes to the end.
DictSet(d, k, v) ==
    IF DictHas(d, k)
    THEN [i \in 1..Len(d) |-> IF d[i][1] = k THEN <<k, v>> ELSE d[i]]
    ELSE Append(d, <<k, v>>)

\* max(d, key=d.get): the first key, in iteration order, of maximal value.
MaxKey(d) ==
    LET i == CHOOSE i \in 1..Len(d) :
                 /\ \A j \in 1..Len(d) : d[j][2] <= d[i][2]
                 /\ \A j \in 1..(i - 1) : d[j][2] < d[i][2]
    IN  d[i][1]

----------------------------------------------------------------------------
(* generate_textual_analysis: the narrative is the sequence of the string  *)
(* fragments the function appends to `analysis`, in order.                 *)

VegetationGood == Float(5, 10)       \* avg_ndvi > 0.5

VegetationModerate == Float(3, 10)   \* avg_ndvi > 0.3

WaterPresent == <<0, 1, 0>>          \* avg_ndwi > 0

TreeCover == "Couverture arboree"

\* Mutation of Trend: a tie between first and last counts as an increase.
TrendTieIsIncrease(s) ==
    IF s[Len(s)] >= s[1] THEN "augmentation" ELSE "diminution"

\* 'augmentation' if s.iloc[-1] > s.iloc[0] else 'diminution'
Trend(s) == IF s[Len(s)] > s[1] THEN "augmentation" ELSE "diminution"

\* Mutation of NdviSection: the thresholds are inclusive (>= 0.5, >= 0.3).
NdviSectionInclusive(avg_ndvi, ndvi_trend) ==
    << "L'indice de vegetation (NDVI) moyen est de ",
       FormatFixed(avg_ndvi, 2),
       ", avec une tendance a la ", ndvi_trend, " sur la periode analysee. ",
       "Cela indique une sante de la vegetation ",
       IF ~FloatGT(VegetationGood, avg_ndvi) THEN "generalement bonne.\n"
       ELSE IF ~FloatGT(VegetationModerate, avg_ndvi) THEN "moderee.\n"
       ELSE "potentiellement faible ou une zone avec peu de vegetation.\n" >>

NdviSection(avg_ndvi, ndvi_trend) ==
    << "L'indice de vegetation (NDVI) moyen est de ",
       FormatFixed(avg_ndvi, 2),
       ", avec une tendance a la ", ndvi_trend, " sur la periode analysee. ",
       "Cela indique une sante de la vegetation ",
       IF FloatGT(avg_ndvi, VegetationGood) THEN "generalement bonne.\n"
       ELSE IF FloatGT(avg_ndvi, VegetationModerate) THEN "moderee.\n"
       ELSE "potentiellement faible ou une zone avec peu de vegetation.\n" >>

NdwiSection(avg_ndwi, ndwi_trend) ==
    << "\nL'indice d'eau (NDWI) moyen est de ",
       FormatFixed(avg_ndwi, 2),
       ", avec une tendance a la ", ndwi_trend, ". ",
       "Cela suggere ",
       IF FloatGT(avg_ndwi, WaterPresent)
       THEN "la presence significative d'eau dans la zone.\n"
       ELSE "une zone relativement seche ou avec peu d'eau de surface.\n" >>

\* value / sum(values) * 100
Percent(value, total) == FloatMul(Float(value, total), 100)

LandCoverSection(landcover_data) ==
    LET dominant_cover == MaxKey(landcover_data)
    IN  << "\nLa couverture terrestre dominante dans la zone est '",
           dominant_cover, "', ",
           "representant ",
           FormatFixed(Percent(DictGet(landcover_data, dominant_cover),
                               SumSeq(DictValues(landcover_data))), 1),
           "% de la surface analysee.\n" >>

\* Mutation of DeforestationSection: the two NDVI-trend branches are swapped.
DeforestationSectionSwapped(landcover_data, ndvi_trend) ==
    <<"\nEn ce qui concerne la deforestation, ">> \o
    IF DictHas(landcover_data, TreeCover)
    THEN << "la zone presente actuellement ",
            FormatFixed(Percent(DictGet(landcover_data, TreeCover),
                                SumSeq(DictValues(landcover_data))), 1),
            "% de couverture arboree. " >> \o
         IF ndvi_trend # "diminution"
         THEN << "La tendance a la baisse du NDVI pourrait indiquer une perte recente de vegetation, ",
                 "potentiellement liee a des activites de deforestation." >>
         ELSE << "Malgre la preoccupation de deforestation, le NDVI ne montre pas de tendance a la baisse, ",
                 "ce qui pourrait suggerer que la deforestation n'est pas active ou est compensee par la croissance ailleurs." >>
    ELSE << "la zone ne semble pas avoir une couverture forestiere significative actuellement. ",
            "Cela pourrait indiquer une deforestation passee ou une zone naturellement non boisee." >>

DeforestationSection(landcover_data, ndvi_trend) ==
    <<"\nEn ce qui concerne la deforestation, ">> \o
    IF DictHas(landcover_data, TreeCover)
    THEN << "la zone presente actuellement ",
            FormatFixed(Percent(DictGet(landcover_data, TreeCover),
                                SumSeq(DictValues(landcover_data))), 1),
            "% de couverture arboree. " >> \o
         IF ndvi_trend = "diminution"
         THEN << "La tendance a la baisse du NDVI pourrait indiquer une perte recente de vegetation, ",
                 "potentiellement liee a des activites de deforestation." >>
         ELSE << "Malgre la preoccupation de deforestation, le NDVI ne montre pas de tendance a la baisse, ",
                 "ce qui pourrait suggerer que la deforestation n'est pas active ou est compensee par la croissance ailleurs." >>
    ELSE << "la zone ne semble pas avoir une couverture forestiere significative actuellement. ",
            "Cela pourrait indiquer une deforestation passee ou une zone naturellement non boisee." >>

WaterPollutionSection(avg_ndwi, ndwi_trend) ==
    <<"\nConcernant la pollution de l'eau, ">> \o
    IF FloatGT(avg_ndwi, WaterPresent)
    THEN <<"la presence d'eau est confirmee par l'indice NDWI positif. ">> \o
         IF ndwi_trend = "diminution"
         THEN << "La tendance a la baisse du NDWI pourrait indiquer une reduction des surfaces d'eau, ",
                 "potentiellement liee a la pollution ou a d'autres facteurs environnementaux." >>
         ELSE << "Le NDWI stable ou en augmentation suggere que la quantite d'eau de surface n'a pas diminue. ",
                 "Cependant, cela n'exclut pas la possibilite de pollution, qui necessiterait des analyses in situ pour etre confirmee." >>
    ELSE << "l'indice NDWI faible suggere peu d'eau de surface dans la zone. ",
            "La pollution de l'eau pourrait concerner des sources d'eau souterraines ou des cours d'eau temporaires non detectes par l'analyse satellite." >>

IncidentSection(incident_type, landcover_data, ndvi_trend, avg_ndwi, ndwi_trend) ==
    IF incident_type = "Deforestation"
    THEN DeforestationSection(landcover_data, ndvi_trend)
    ELSE IF incident_type = "Pollution de l'eau"
    THEN WaterPollutionSection(avg_ndwi, ndwi_trend)
    ELSE <<>>

\* Series.iloc[-1] of an empty series raises IndexError (the mean of an
\* empty series is NaN and raises nothing); max() of an empty dict raises
\* ValueError; a histogram whose counts sum to 0 raises ZeroDivisionError.
generate_textual_analysis(ndvi_data, ndwi_data, landcover_data, incident_type) ==
    LET ndvi == Column(ndvi_data, "NDVI")
        ndwi == Column(ndwi_data, "NDWI")
        sections(avg_ndvi, avg_ndwi) ==
            << "Analyse de l'incident de type '", incident_type, "':\n\n" >>
            \o NdviSection(avg_ndvi, Trend(ndvi))
            \o NdwiSection(avg_ndwi, Trend(ndwi))
            \o LandCoverSection(landcover_data)
            \o IncidentSection(incident_type, landcover_data, Trend(ndvi),
                               avg_ndwi, Trend(ndwi))
    IN  IF Len(ndvi) = 0 THEN Raise("IndexError")
        ELSE IF Len(ndwi) = 0 THEN Raise("IndexError")
        ELSE IF Len(landcover_data) = 0 THEN Raise("ValueError")
        ELSE IF SumSeq(DictValues(landcover_data)) = 0
        THEN Raise("ZeroDivisionError")
        ELSE Return(sections(SeriesMean(ndvi), SeriesMean(ndwi)))

(* The inputs of the narrative. *)

NdviValues == {2, 3, 4, 7}       \* NDVI samples, in tenths

\* NDWI series, in tenths: empty, one entry, rising, falling, equal ends,
\* and three whose tenths sum to zero while their doubles do not.
NdwiSeries ==
    {<<>>, <<2>>, <<-2>>, <<-2, 2>>, <<2, -2>>, <<2, -2, 2>>,
     <<-3, 1, 2>>, <<2, 1, -3>>, <<-7, 2, 5>>}

CoverNames == {TreeCover, "Zones baties"}

CoverCounts == {1, 3}

IncidentTypes == {"Deforestation", "Pollution de l'eau", "Feux de brousse"}

\* The i-th acquisition date of a series, as <<year, month, day>>.
SceneDate(i) == <<2023, i, 10 + i>>

SeriesFrame(name, values) ==
    DataFrame(<<"Date", name>>,
              [i \in 1..Len(values) |->
                  [c \in {"Date", name} |->
                      IF c = "Date" THEN SceneDate(i) ELSE values[i]]])

\* The histograms over the class names: every order of every subset.
Histograms(names) ==
    {d \in SeqUpTo(names \X CoverCounts, Cardinality(names)) :
        \A i, j \in 1..Len(d) : i # j => d[i][1] # d[j][1]}

\* A call of generate_textual_analysis with its arguments bound, not yet run.
InitNarrative ==
    \E nv \in SeqUpTo(NdviValues, MaxLen), wv \in NdwiSeries,
       lc \in Histograms(CoverNames), it \in IncidentTypes :
        /\ op = "generate_textual_analysis"
        /\ args = [ndvi_data |-> SeriesFrame("NDVI", nv),
                   ndwi_data |-> SeriesFrame("NDWI", wv),
                   landcover_data |-> lc,
                   incident_type |-> it]
        /\ ret = NoCall
        /\ heap = <<>>
        /\ messages = <<[role |-> "assistant", content |-> "How can I help?"]>>
        /\ figures = <<>>
        /\ calls = NoCalls

GenerateTextualAnalysis ==
    /\ op = "generate_textual_analysis"
    /\ ret = NoCall
    /\ ret' = generate_textual_analysis(args.ndvi_data, args.ndwi_data,
                                        args.landcover_data, args.incident_type)
    /\ UNCHANGED <<op, args, heap, messages, calls, figures>>

NextNarrative == GenerateTextualAnalysis

SpecNarrative == InitNarrative /\ [][NextNarrative]_vars

----------------------------------------------------------------------------
(* analyze_land_cover: the histogram of class codes the land-cover service *)
(* answers with is an ordered dict from code strings to pixel counts.      *)

MaxCodes == 3        \* most class codes in one sampled histogram

Digits == <<"0", "1", "2", "3", "4", "5", "6", "7", "8", "9">>

DigitValue(c) == (CHOOSE i \in 1..10 : Digits[i] = c) - 1

\* int(k) of a string of decimal digits, given as the sequence of its
\* characters.
RECURSIVE ParseInt(_)
ParseInt(k) ==
    IF Len(k) = 0 THEN 0
    ELSE 10 * ParseInt(SubSeq(k, 1, Len(k) - 1)) + DigitValue(k[Len(k)])

\* land_cover_types.get(code, 'Inconnu')
LandCoverType(code) ==
    CASE code = 10 -> TreeCover
      [] code = 20 -> "Arbustes"
      [] code = 30 -> "Prairies"
      [] code = 40 -> "Terres cultivees"
      [] code = 50 -> "Zones baties"
      [] code = 60 -> "Vegetation clairsemee/nue"
      [] code = 70 -> "Neige/Glace"
      [] code = 80 -> "Plans d'eau permanents"
      [] code = 90 -> "Zones humides herbacees"
      [] code = 95 -> "Mangroves"
      [] code = 100 -> "Mousses/Lichens"
      [] OTHER -> "Inconnu"

\* {land_cover_types.get(int(k), 'Inconnu'): v for k, v in items}: the items
\* are inserted in order, a name met again keeps its place and takes the
\* later count.
RECURSIVE RemapCodes(_, _)
RemapCodes(items, acc) ==
    IF items = <<>> THEN acc
    ELSE RemapCodes(Tail(items),
                    DictSet(acc, LandCoverType(ParseInt(Head(items)[1])),
                            Head(items)[2]))

\* sampled is the outcome of landcover.sample(...).aggregate_histogram('Map')
\* .getInfo(): the histogram, or the exception of the failed service call.
analyze_land_cover(sampled) ==
    IF Raised(sampled) THEN sampled
    ELSE Return(RemapCodes(sampled.value, <<>>))

SampledCodes ==
    {<<"1", "0">>, <<"5", "0">>, <<"1", "0", "0">>, <<"1", "5">>, <<"2", "5">>}

SampledCounts == {1, 2}

SampledHistograms ==
    {d \in SeqUpTo(SampledCodes \X SampledCounts, MaxCodes) :
        \A i, j \in 1..Len(d) : i # j => d[i][1] # d[j][1]}

InitLandCover ==
    \E sampled \in {Return(d) : d \in SampledHistograms}
                       \cup {Raise("EEException")} :
        /\ op = "analyze_land_cover"
        /\ args = [sampled_data |-> sampled]
        /\ ret = NoCall
        /\ heap = <<>>
        /\ messages = <<[role |-> "assistant", content |-> "How can I help?"]>>
        /\ figures = <<>>
        /\ calls = NoCalls

AnalyzeLandCover ==
    /\ op = "analyze_land_cover"
    /\ ret = NoCall
    /\ ret' = analyze_land_cover(args.sampled_data)
    /\ UNCHANGED <<op, args, heap, messages, calls, figures>>

NextLandCover == AnalyzeLandCover

SpecLandCover == InitLandCover /\ [][NextLandCover]_vars

\* C8: the histogram analyze_land_cover returns has non-negative integer
\* values whose sum is the number of sampled pixels: the remapping of codes
\* to names loses no pixel, also when several unrecognised codes fall into
\* 'Inconnu'.
C8_RemapKeepsPixelTotal ==
    (op = "analyze_land_cover" /\ Returned(ret)) =>
        /\ \A i \in 1..Len(ret.value) : ret.value[i][2] \in Nat
        /\ SumSeq(DictValues(ret.value))
              = SumSeq(DictValues(args.sampled_data.value))

----------------------------------------------------------------------------
(* The chart renderers.  pyplot keeps the open figures in a process-wide   *)
(* registry; plt.figure() opens a figure and makes it current, the plt.*   *)
(* drawing calls draw into the current figure, plt.savefig() encodes it    *)
(* and plt.close() closes it.                                              *)

MaxRows == 2         \* longest series given to a renderer

MaxFigures == 2      \* most figures left open in pyplot's registry

RECURSIVE GCD(_, _)
GCD(a, b) == IF b = 0 THEN a ELSE GCD(b, a % b)

\* A fraction in lowest terms.
Reduce(q) ==
    LET g == GCD(Abs(q[1]), q[2]) IN <<q[1] \div g, q[2] \div g>>

\* What the plt.* calls other than the plotting ones set on the axes of
\* the current figure; a later call replaces what an earlier one set.
AxesProps ==
    {"xaxis.major_locator", "xaxis.major_formatter", "xticks", "xlabel",
     "ylabel", "title", "legend", "grid", "layout"}

\* plt.figure(figsize=...): a figure with nothing drawn and nothing set.
PltFigure(figs, figsize) ==
    Append(figs, [figsize |-> figsize, drawn |-> <<>>,
                  axes |-> [p \in AxesProps |-> <<>>]])

\* plt.plot, sns.heatmap, plt.pie: the artist goes to the current figure.
PltDraw(figs, artist) ==
    [figs EXCEPT ![Len(figs)].drawn = Append(@, artist)]

\* plt.gca().xaxis.set_major_locator, plt.xticks, plt.xlabel, plt.title,
\* plt.grid, plt.tight_layout, ...: set on the current figure.
PltSet(figs, prop, value) ==
    [figs EXCEPT ![Len(figs)].axes[prop] = value]

\* plt.legend(): one entry per labelled line the current figure holds when
\* the call is made.
PltLegend(figs) ==
    LET drawn == figs[Len(figs)].drawn
        lines == SelectSeq(drawn, LAMBDA artist : "plot" \in DOMAIN artist)
    IN  PltSet(figs, "legend", [k \in 1..Len(lines) |-> lines[k].plot])

\* plt.savefig(img_buffer, format='png') then base64.b64encode(...).decode()
PltSaveFig(figs) == [base64 |-> [format |-> "png", figure |-> figs[Len(figs)]]]

\* plt.close()
PltClose(figs) == SubSeq(figs, 1, Len(figs) - 1)

IsImage(v) == DOMAIN v = {"base64"} /\ v.base64.format = "png"

\* What a renderer leaves behind: its outcome, pyplot's registry and the
\* DataFrame it was given.
Rendered(r, figs, df) == [ret |-> r, figures |-> figs, data |-> df]

generate_ndvi_ndwi_plot(figs, ndvi_data, ndwi_data) ==
    LET f1 == PltFigure(figs, <<12, 6>>)
        f2 == PltDraw(f1, [plot |-> "NDVI (vegetation)",
                           x |-> Column(ndvi_data, "Date"),
                           y |-> Column(ndvi_data, "NDVI")])
        f3 == PltDraw(f2, [plot |-> "NDWI (eau)",
                           x |-> Column(ndwi_data, "Date"),
                           y |-> Column(ndwi_data, "NDWI")])
        f4 == PltSet(f3, "xaxis.major_locator", <<"MonthLocator(interval=3)">>)
        f5 == PltSet(f4, "xaxis.major_formatter", <<"DateFormatter('%b %Y')">>)
        f6 == PltSet(f5, "xticks", <<"rotation=45", "ha='right'">>)
        f7 == PltSet(f6, "xlabel", <<"Date">>)
        f8 == PltSet(f7, "ylabel", <<"Valeur de l'indice">>)
        f9 == PltSet(f8, "title", <<"Series temporelles du NDVI et du NDWI">>)
        f10 == PltLegend(f9)
        f11 == PltSet(f10, "grid", <<"True">>)
        f12 == PltSet(f11, "layout", <<"tight">>)
    IN  Rendered(Return(PltSaveFig(f12)), PltClose(f12), ndvi_data)

\* mois_abbr_francais
MoisAbbr ==
    <<"Janv", "Fevr", "Mars", "Avril", "Mai", "Juin",
      "Juil", "Aout", "Sept", "Oct", "Nov", "Dec">>

\* ndvi_data['NumMois'], ndvi_data['Mois'], ndvi_data['Jour'] = ...: the
\* three columns are added to the caller's DataFrame.
WithCalendarColumns(ndvi_data) ==
    DataFrame(
        ndvi_data.columns \o <<"NumMois", "Mois", "Jour">>,
        [i \in 1..Len(ndvi_data.rows) |->
            LET row == ndvi_data.rows[i] IN
            [c \in DOMAIN row \cup {"NumMois", "Mois", "Jour"} |->
                CASE c = "NumMois" -> row["Date"][2]
                  [] c = "Mois" -> MoisAbbr[row["Date"][2]]
                  [] c = "Jour" -> row["Date"][3]
                  [] OTHER -> row[c]]])

\* pivot_table(index='Jour', columns='Mois', values='NDVI', aggfunc='mean'):
\* one cell per (Jour, Mois) that has rows, holding the mean of their NDVI.
PivotTable(df) ==
    LET rows == df.rows
        keys == {<<rows[i]["Jour"], rows[i]["Mois"]>> : i \in 1..Len(rows)}
        at(k) == {i \in 1..Len(rows) : <<rows[i]["Jour"], rows[i]["Mois"]>> = k}
        RECURSIVE total(_)
        total(I) == IF I = {} THEN 0
                    ELSE LET i == CHOOSE i \in I : TRUE
                         IN  rows[i]["NDVI"] + total(I \ {i})
    IN  {[Jour |-> k[1], Mois |-> k[2],
          NDVI |-> Reduce(<<total(at(k)), 10 * Cardinality(at(k))>>)] : k \in keys}

\* sns.heatmap of an empty pivot raises ValueError (the colour range is the
\* minimum of no value) after plt.figure() has opened the figure, which is
\* then never closed.
generate_ndvi_heatmap(figs, ndvi_data) ==
    LET df == WithCalendarColumns(ndvi_data)
        heatmap_data == PivotTable(df)
        f1 == PltFigure(figs, <<12, 8>>)
        f2 == PltDraw(f1, [heatmap |-> heatmap_data])
        f3 == PltSet(f2, "title", <<"Carte thermique du NDVI (12 derniers mois)">>)
        f4 == PltSet(f3, "xlabel", <<"Mois">>)
        f5 == PltSet(f4, "ylabel", <<"Jour du mois">>)
        f6 == PltSet(f5, "layout", <<"tight">>)
    IN  IF heatmap_data = {}
        THEN Rendered(Raise("ValueError"), f1, df)
        ELSE Rendered(Return(PltSaveFig(f6)), PltClose(f6), df)

\* plt.pie draws one wedge per value, sized by its share of the total; no
\* value, no wedge.
generate_landcover_plot(figs, landcover_data) ==
    LET total == SumSeq(DictValues(landcover_data))
        f1 == PltFigure(figs, <<8, 8>>)
        f2 == PltDraw(f1, [pie |-> [i \in 1..Len(landcover_data) |->
                                      Reduce(<<landcover_data[i][2], total>>)]])
        f3 == PltSet(f2, "title", <<"Distribution de la couverture terrestre (zone tampon)">>)
        f4 == PltSet(f3, "legend", DictKeys(landcover_data))
        f5 == PltSet(f4, "layout", <<"tight">>)
    IN  Rendered(Return(PltSaveFig(f5)), PltClose(f5), landcover_data)

(* The inputs of the renderers. *)

RenderDates == {<<2023, 1, 5>>, <<2023, 2, 5>>}

RenderNdvi == {3, 7}

RenderNdwi == 2

\* The two frames analyze_vegetation_and_water cuts out of one DataFrame:
\* the same dates, one value column each.
FrameOf(name, rows) ==
    DataFrame(<<"Date", name>>,
              [i \in 1..Len(rows) |->
                  [c \in {"Date", name} |->
                      IF c = "Date" THEN rows[i][1]
                      ELSE IF name = "NDVI" THEN rows[i][2] ELSE RenderNdwi]])

RenderRows == SeqUpTo(RenderDates \X RenderNdvi, MaxRows)

Init ==
    /\ op = ""
    /\ args = <<>>
    /\ ret = NoCall
    /\ heap = <<>>
    /\ messages = <<[role |-> "assistant", content |-> "How can I help?"]>>
    /\ figures = <<>>
    /\ calls = NoCalls

GenerateNdviNdwiPlot ==
    \E rows \in RenderRows :
        LET a == [ndvi_data |-> FrameOf("NDVI", rows),
                  ndwi_data |-> FrameOf("NDWI", rows)]
            r == generate_ndvi_ndwi_plot(figures, a.ndvi_data, a.ndwi_data)
        IN  /\ Len(figures) < MaxFigures
            /\ op' = "generate_ndvi_ndwi_plot"
            /\ args' = a
            /\ ret' = r.ret
            /\ heap' = <<>>
            /\ figures' = r.figures
            /\ UNCHANGED <<messages, calls>>

GenerateNdviHeatmap ==
    \E rows \in RenderRows :
        LET a == [ndvi_data |-> FrameOf("NDVI", rows)]
            r == generate_ndvi_heatmap(figures, a.ndvi_data)
        IN  /\ Len(figures) < MaxFigures
            /\ op' = "generate_ndvi_heatmap"
            /\ args' = a
            /\ ret' = r.ret
            /\ heap' = [ndvi_data |-> r.data]
            /\ figures' = r.figures
            /\ UNCHANGED <<messages, calls>>

GenerateLandcoverPlot ==
    \E lc \in Histograms(CoverNames) :
        LET a == [landcover_data |-> lc]
            r == generate_landcover_plot(figures, a.landcover_data)
        IN  /\ Len(figures) < MaxFigures
            /\ op' = "generate_landcover_plot"
            /\ args' = a
            /\ ret' = r.ret
            /\ heap' = <<>>
            /\ figures' = r.figures
            /\ UNCHANGED <<messages, calls>>

NextRender ==
    \/ GenerateNdviNdwiPlot
    \/ GenerateNdviHeatmap
    \/ GenerateLandcoverPlot

SpecRender == Init /\ [][NextRender]_vars

RenderOps ==
    {"generate_ndvi_ndwi_plot", "generate_ndvi_heatmap", "generate_landcover_plot"}

EmptyRenderInput ==
    \/ op = "generate_ndvi_ndwi_plot" /\ Len(args.ndvi_data.rows) = 0
    \/ op = "generate_ndvi_heatmap" /\ Len(args.ndvi_data.rows) = 0
    \/ op = "generate_landcover_plot" /\ Len(args.landcover_data) = 0

\* C3: each of the three renderers, called with empty input, never raises:
\* it returns a complete encoded image (or a placeholder image) and leaves
\* no partially written output behind.
C3_EmptyInputRendersOrPlaceholder ==
    (op \in RenderOps /\ EmptyRenderInput) =>
        /\ Returned(ret)
        /\ IsImage(ret.value)

----------------------------------------------------------------------------
(* create_geojson_from_location.  response is the outcome of               *)
(* requests.get: a response with its status code and JSON body, or the     *)
(* exception of a failed connection.  Coordinates come as strings.         *)

MaxCandidates == 2   \* most candidates in one geocoding answer

\* float(s) for a string of an optional '-' and decimal digits.
ParseFloat(s) ==
    IF s[1] = "-" THEN -ParseInt(Tail(s)) ELSE ParseInt(s)

\* Point(lon, lat) as <<x, y>>.
Point(x, y) == <<x, y>>

\* Mutation of GeocodePoint: an empty candidate list is indexed anyway.
GeocodePointNoEmptyTest(response) ==
    IF response.status_code = 200
    THEN IF Len(response.json) = 0
         THEN Raise("IndexError")
         ELSE Return(Point(ParseFloat(response.json[1].lon),
                           ParseFloat(response.json[1].lat)))
    ELSE Return(Point(0, 0))

\* Lines 309-320: the point the answer of the geocoding service resolves to.
GeocodePoint(response) ==
    IF response.status_code = 200
    THEN IF Len(response.json) > 0
         THEN Return(Point(ParseFloat(response.json[1].lon),
                           ParseFloat(response.json[1].lat)))
         ELSE Return(Point(0, 0))
    ELSE Return(Point(0, 0))

\* gdf.to_file(geojson_path, driver='GeoJSON'): one feature, the point.
GeoJson(location, point) ==
    [type |-> "FeatureCollection",
     features |-> <<[properties |-> [name |-> location],
                     geometry |-> [type |-> "Point", coordinates |-> point]]>>]

\* Lines 328-339: the checks made on the file read back.
VerifyGeoJson(geojson_data) ==
    IF "features" \notin DOMAIN geojson_data \/ Len(geojson_data.features) = 0
    THEN Raise("ValueError")
    ELSE IF "geometry" \notin DOMAIN geojson_data.features[1]
    THEN Raise("ValueError")
    ELSE IF geojson_data.features[1].geometry.type # "Point"
    THEN Raise("ValueError")
    ELSE Return(TRUE)

\* The outcome, the requests sent to the geocoding service, the point
\* resolved and the files written.  response: what requests.get answered or
\* raised; writable: whether output_dir takes the file.
create_geojson_from_location(location, output_dir, response, writable) ==
    LET geocode_url == <<"https://nominatim.openstreetmap.org/search?q=",
                         location, "&format=json&limit=1">>
        geojson_path == <<output_dir, location \o ".geojson">>
        out(r, point, files) ==
            [ret |-> r, requests |-> <<geocode_url>>, point |-> point,
             files |-> files]
    IN  IF Raised(response) THEN out(response, <<>>, <<>>)
        ELSE LET p == GeocodePoint(response.value) IN
        IF Raised(p) THEN out(p, <<>>, <<>>)
        ELSE IF ~writable THEN out(Raise("OSError"), p.value, <<>>)
        ELSE LET geojson_data == GeoJson(location, p.value)
                 files == <<[path |-> geojson_path, content |-> geojson_data]>>
                 v == VerifyGeoJson(geojson_data)
             IN  IF Raised(v) THEN out(v, p.value, files)
                 ELSE out(Return(geojson_path), p.value, files)

Locations == {"Bamako", "Nulle part"}

Candidates ==
    {[lat |-> <<"1", "2">>, lon |-> <<"-", "8">>],
     [lat |-> <<"-", "3">>, lon |-> <<"4", "5">>],
     [lat |-> <<"0">>, lon |-> <<"0">>]}

StatusCodes == {200, 404, 500}

GeocodeResponses ==
    {Return([status_code |-> c, json |-> d]) :
        c \in StatusCodes, d \in SeqUpTo(Candidates, MaxCandidates)}
    \cup {Raise("ConnectionError")}

CreateGeojsonFromLocation ==
    \E location \in Locations, response \in GeocodeResponses,
       writable \in BOOLEAN :
        LET a == [location |-> location, output_dir |-> "geojson",
                  response |-> response, writable |-> writable]
            r == create_geojson_from_location(a.location, a.output_dir,
                                              a.response, a.writable)
        IN  /\ op' = "create_geojson_from_location"
            /\ args' = a
            /\ ret' = r.ret
            /\ heap' = [requests |-> r.requests, point |-> r.point,
                        files |-> r.files]
            /\ UNCHANGED <<messages, calls, figures>>

NextGeo == CreateGeojsonFromLocation

SpecGeo == Init /\ [][NextGeo]_vars

GeoAnswered ==
    op = "create_geojson_from_location" /\ Returned(args.response)

\* C9: the geocoding step resolves to the sentinel point (0, 0) without
\* raising when the service answers with no candidate or with a status
\* other than 200, and to the first candidate's latitude and longitude when
\* it answers 200 with candidates; the service is called exactly once.
C9_GeocodeSentinelOrFirstCandidate ==
    GeoAnswered =>
        LET answer == args.response.value
            fallback == answer.status_code # 200 \/ Len(answer.json) = 0
        IN  /\ Len(heap.requests) = 1
            /\ fallback =>
                  /\ heap.point = <<0, 0>>
                  /\ (args.writable => Returned(ret))
                  /\ (~args.writable => ret.exc = "OSError")
            /\ ~fallback =>
                  heap.point = <<ParseFloat(answer.json[1].lon),
                                 ParseFloat(answer.json[1].lat)>>

\* A 200 answer with no candidate: the file is written with the point (0, 0)
\* and the path is returned.
C9_Witness ==
    /\ GeoAnswered
    /\ args.response.value.status_code = 200
    /\ Len(args.response.value.json) = 0
    /\ Returned(ret)
    /\ heap.point = <<0, 0>>
    /\ heap.files[1].content.features[1].geometry.coordinates = <<0, 0>>

----------------------------------------------------------------------------
(* gpt_3_5_turbo.  completion is what client.chat.completions.create does  *)
(* when it is called: it answers with choices, each holding a message, or  *)
(* it raises.                                                              *)

MaxTurns == 2        \* most get_response turns in the module-level history

AssistantFallback == "Sorry, I can't process your request right now."

ChatFallback == "Desole, je ne peux pas traiter votre demande pour le moment."

Message(role, content) == [role |-> role, content |-> content]

\* What a chat function leaves behind: its outcome and the requests it sent
\* to the completion service.
Chatted(r, requests) == [ret |-> r, requests |-> requests]

\* Lines 37-51.  r.choices[0] of an answer without choices raises inside
\* the try block.
get_assistant_response(msgs, completion) ==
    LET request == [model |-> "gpt-4o-mini",
                    messages |-> [k \in 1..Len(msgs) |->
                                     Message(msgs[k].role, msgs[k].content)]]
    IN  IF Raised(completion) THEN Chatted(Return(AssistantFallback), <<request>>)
        ELSE IF Len(completion.value) = 0
        THEN Chatted(Return(AssistantFallback), <<request>>)
        ELSE Chatted(Return(completion.value[1].content), <<request>>)

\* json.loads(context) followed by the three context_obj.get(...) calls.
ContextFields(context) ==
    CASE context = "" -> Raise("JSONDecodeError")
      [] context = "[]" -> Raise("AttributeError")
      [] context = "{}" ->
            Return([type_incident |-> "Inconnu", analysis |-> "Non specifie",
                    piste_solution |-> "Non specifie"])
      [] context = "{\"type_incident\": \"Deforestation\"}" ->
            Return([type_incident |-> "Deforestation",
                    analysis |-> "Non specifie",
                    piste_solution |-> "Non specifie"])

\* Mutation of chat_response: the exception of the completion call is not
\* caught.
chat_response_uncaught(prompt, context, chat_history, completion) ==
    LET fields == ContextFields(context)
        request == [model |-> "gpt-4o-mini",
                    messages |-> <<Message("system", fields.value)>>
                                     \o chat_history
                                     \o <<Message("user", prompt)>>]
    IN  IF Raised(fields) THEN Chatted(fields, <<>>)
        ELSE IF Raised(completion) THEN Chatted(completion, <<request>>)
        ELSE IF Len(completion.value) = 0
        THEN Chatted(Return(ChatFallback), <<request>>)
        ELSE Chatted(Return(completion.value[1].content), <<request>>)

\* Lines 104-197.  The context is parsed before the try block.
chat_response(prompt, context, chat_history, completion) ==
    LET fields == ContextFields(context)
        request == [model |-> "gpt-4o-mini",
                    messages |-> <<Message("system", fields.value)>>
                                     \o chat_history
                                     \o <<Message("user", prompt)>>]
    IN  IF Raised(fields) THEN Chatted(fields, <<>>)
        ELSE IF Raised(completion) THEN Chatted(Return(ChatFallback), <<request>>)
        ELSE IF Len(completion.value) = 0
        THEN Chatted(Return(ChatFallback), <<request>>)
        ELSE Chatted(Return(completion.value[1].content), <<request>>)

Prompts == {"Quels sont les impacts ?", "Que faire ?"}

Completions ==
    {Return(<<Message("assistant", "La deforestation reduit les habitats.")>>),
     Return(<<>>),
     Raise("APIConnectionError")}

Contexts == {"", "[]", "{}", "{\"type_incident\": \"Deforestation\"}"}

ChatHistories ==
    {<<>>, <<Message("user", "Bonjour"), Message("assistant", "Bonjour !")>>}

GetAssistantResponse ==
    \E history \in ChatHistories, completion \in Completions :
        LET a == [messages |-> history, completion |-> completion]
            r == get_assistant_response(a.messages, a.completion)
        IN  /\ op' = "get_assistant_response"
            /\ args' = a
            /\ ret' = r.ret
            /\ heap' = [requests |-> r.requests]
            /\ UNCHANGED <<messages, calls, figures>>

\* The turns get_response has begun: the user messages of the history.
UserTurns(history) ==
    Cardinality({k \in 1..Len(history) : history[k].role = "user"})

\* Line 64: the caller's prompt joins the module-level history.
GetResponseAppend(c) ==
    \E prompt \in Prompts :
        /\ calls[c] = Idle
        /\ UserTurns(messages) < MaxTurns
        /\ messages' = Append(messages, Message("user", prompt))
        /\ calls' = [calls EXCEPT ![c] = [at |-> "create", prompt |-> prompt]]
        /\ UNCHANGED <<op, args, ret, heap, figures>>

\* Line 67, lines 38-46: the request is built from the module-level history
\* as it is now and sent; the caller waits for the answer.
GetResponseCreate(c) ==
    /\ calls[c].at = "create"
    /\ calls' = [calls EXCEPT ![c] = [at |-> "waiting",
                                        prompt |-> calls[c].prompt,
                                        sent |-> messages]]
    /\ UNCHANGED <<op, args, ret, heap, messages, figures>>

\* Lines 47-51, 68-73: the completion service answers or raises, the reply
\* joins the module-level history as it is now, and the call returns.
GetResponseReturn(c) ==
    \E completion \in Completions :
        LET a == [prompt |-> calls[c].prompt, completion |-> completion]
            r == get_assistant_response(calls[c].sent, a.completion)
        IN  /\ calls[c].at = "waiting"
            /\ op' = "get_response"
            /\ args' = a
            /\ ret' = r.ret
            /\ heap' = [requests |-> r.requests]
            /\ messages' = Append(messages, Message("assistant", r.ret.value))
            /\ calls' = [calls EXCEPT ![c] = Idle]
            /\ UNCHANGED figures

ChatResponse ==
    \E prompt \in Prompts, context \in Contexts,
       chat_history \in ChatHistories, completion \in Completions :
        LET a == [prompt |-> prompt, context |-> context,
                  chat_history |-> chat_history, completion |-> completion]
            r == chat_response(a.prompt, a.context, a.chat_history, a.completion)
        IN  /\ op' = "chat_response"
            /\ args' = a
            /\ ret' = r.ret
            /\ heap' = [requests |-> r.requests, chat_history |-> chat_history]
            /\ UNCHANGED <<messages, calls, figures>>

NextChat ==
    \/ GetAssistantResponse
    \/ \E c \in Callers : GetResponseAppend(c)
    \/ \E c \in Callers : GetResponseCreate(c)
    \/ \E c \in Callers : GetResponseReturn(c)
    \/ ChatResponse

SpecChat == Init /\ [][NextChat]_vars

\* The fixed fallback of the chat function called last.
FallbackOf(f) ==
    IF f = "chat_response" THEN ChatFallback ELSE AssistantFallback

\* C10: chat_response and get_assistant_response send at most one request to
\* the completion service; when that call raises they do not raise and
\* return their fixed fallback message, when it answers with a message they
\* return the message's content.
C10_SingleAttemptThenFallback ==
    (op \in {"chat_response", "get_assistant_response"}) =>
        /\ Len(heap.requests) <= 1
        /\ (Len(heap.requests) = 1 /\ Raised(args.completion)) =>
              /\ Returned(ret)
              /\ ret.value = FallbackOf(op)
        /\ (Len(heap.requests) = 1 /\ Returned(args.completion)
                /\ Len(args.completion.value) > 0) =>
              /\ Returned(ret)
              /\ ret.value = args.completion.value[1].content
        /\ (op = "get_assistant_response" => Len(heap.requests) = 1)
        /\ (op = "chat_response" /\ Returned(ContextFields(args.context))
                => Len(heap.requests) = 1)

\* chat_response with a well-formed context whose completion call raised:
\* one request was sent and the French fallback came back.
C10_Witness ==
    /\ op = "chat_response"
    /\ Raised(args.completion)
    /\ Len(heap.requests) = 1
    /\ Returned(ret)
    /\ ret.value = ChatFallback

----------------------------------------------------------------------------
(* analyze_vegetation_and_water and analyze_incident_zone.                 *)

MaxScenes == 2       \* most scenes in the imagery service's answer

IsDigit(c) == \E k \in 1..10 : Digits[k] = c

IsLeap(y) == (y % 4 = 0 /\ y % 100 # 0) \/ y % 400 = 0

DaysIn(y, m) ==
    IF m = 2 THEN (IF IsLeap(y) THEN 29 ELSE 28)
    ELSE IF m \in {4, 6, 9, 11} THEN 30 ELSE 31

\* The token the directive %m (or %d) takes with n characters at position
\* at: two characters 10-12 / 01-09 (10-31 / 01-09 for %d), or one 1-9.
FieldOk(s, at, n, most) ==
    /\ at + n - 1 <= Len(s)
    /\ \A k \in at..(at + n - 1) : IsDigit(s[k])
    /\ LET v == ParseInt(SubSeq(s, at, at + n - 1))
       IN  /\ v >= 1 /\ v <= most
           /\ n = 1 => s[at] # "0"

\* The alternatives of %d in the order the expression tries them: two
\* digits, one digit, a space and one digit.
DayForms == <<"dd", "d", " d">>

DayLen(form) == IF form = "d" THEN 1 ELSE 2

DayOk(s, at, form) ==
    IF form = " d"
    THEN at + 1 <= Len(s) /\ s[at] = " " /\ FieldOk(s, at + 1, 1, 31)
    ELSE FieldOk(s, at, DayLen(form), 31)

DayValue(s, at, form) ==
    IF form = " d" THEN ParseInt(SubSeq(s, at + 1, at + 1))
    ELSE ParseInt(SubSeq(s, at, at + DayLen(form) - 1))

\* datetime.strptime(s, '%Y%m%d'), s given as the sequence of its
\* characters: the directives match as the regular expression
\* \d\d\d\d (1[0-2]|0[1-9]|[1-9]) (3[01]|[12]\d|0[1-9]|[1-9]| [1-9]) does;
\* text left over, the year 0 or a day the month does not have raises
\* ValueError.
Strptime(s) ==
    LET yearOk == Len(s) >= 4 /\ \A k \in 1..4 : IsDigit(s[k])
        splits == <<<<2, 1>>, <<2, 2>>, <<2, 3>>, <<1, 1>>, <<1, 2>>, <<1, 3>>>>
        fits(k) == /\ FieldOk(s, 5, splits[k][1], 12)
                   /\ DayOk(s, 5 + splits[k][1], DayForms[splits[k][2]])
    IN  IF ~yearOk \/ ~\E k \in 1..6 : fits(k) THEN Raise("ValueError")
        ELSE LET k == CHOOSE k \in 1..6 : fits(k) /\ \A j \in 1..(k - 1) : ~fits(j)
                 ml == splits[k][1]
                 form == DayForms[splits[k][2]]
                 y == ParseInt(SubSeq(s, 1, 4))
                 m == ParseInt(SubSeq(s, 5, 4 + ml))
                 d == DayValue(s, 5 + ml, form)
             IN  IF 4 + ml + DayLen(form) # Len(s) THEN Raise("ValueError")
                 ELSE IF y < 1 THEN Raise("ValueError")
                 ELSE IF d > DaysIn(y, m) THEN Raise("ValueError")
                 ELSE Return(<<y, m, d>>)

DateLE(a, b) ==
    \/ a[1] < b[1]
    \/ a[1] = b[1] /\ a[2] < b[2]
    \/ a[1] = b[1] /\ a[2] = b[2] /\ a[3] <= b[3]

\* ee.Date(t).format('YYYY-MM-dd') then pd.to_datetime: the calendar date of
\* a scene's system:time_start, counted here in days since 2023-01-01.
RECURSIVE DateOfDay(_, _)
DateOfDay(t, m) ==
    IF t < DaysIn(2023, m) THEN <<2023, m, t + 1>>
    ELSE DateOfDay(t - DaysIn(2023, m), m + 1)

\* getRegion(point, scale=10).getInfo(): a header row, then one row
\* [id, longitude, latitude, time, value] per scene.
RegionTable(band, scenes) ==
    <<<<"id", "longitude", "latitude", "time", band>>>> \o
    [k \in 1..Len(scenes) |->
        <<k, scenes[k].lon, scenes[k].lat, scenes[k].time, scenes[k][band]>>]

\* Lines 96-120.  imagery is what the service answers to the four getInfo()
\* calls, or the exception of a failed call.  A DataFrame of columns of
\* unequal length raises ValueError; a mean asked of an image without the
\* band raises KeyError.
analyze_vegetation_and_water(imagery) ==
    IF Raised(imagery) THEN imagery
    ELSE LET ndvi_timeseries == imagery.value.ndvi_timeseries
             ndwi_timeseries == imagery.value.ndwi_timeseries
             ndvi_rows == Tail(ndvi_timeseries)
             ndwi_rows == Tail(ndwi_timeseries)
             dates == [k \in 1..Len(ndvi_rows) |-> DateOfDay(ndvi_rows[k][4], 1)]
             ndvi_values == [k \in 1..Len(ndvi_rows) |-> ndvi_rows[k][5]]
             ndwi_values == [k \in 1..Len(ndwi_rows) |-> ndwi_rows[k][5]]
             frame(name, values) ==
                 DataFrame(<<"Date", name>>,
                           [k \in 1..Len(dates) |->
                               [c \in {"Date", name} |->
                                   IF c = "Date" THEN dates[k] ELSE values[k]]])
         IN  IF ~DictHas(imagery.value.ndvi_mean, "NDVI") THEN Raise("KeyError")
             ELSE IF ~DictHas(imagery.value.ndwi_mean, "NDWI") THEN Raise("KeyError")
             ELSE IF Len(ndwi_values) # Len(ndvi_values) THEN Raise("ValueError")
             ELSE Return(<< frame("NDVI", ndvi_values),
                            frame("NDWI", ndwi_values),
                            DictGet(imagery.value.ndvi_mean, "NDVI"),
                            DictGet(imagery.value.ndwi_mean, "NDWI") >>)

\* a, b = t: a tuple of another length than the targets raises ValueError.
Unpack(t, n) == IF Len(t) = n THEN Return(t) ELSE Raise("ValueError")

\* What analyze_incident_zone leaves behind: its outcome, the stages it
\* entered, in order, and pyplot's registry.
Analyzed(r, stages, figs) == [ret |-> r, stages |-> stages, figures |-> figs]

\* DataFrame.to_dict(): column -> {row index -> value}.
ToDict(df) ==
    [c \in {df.columns[k] : k \in 1..Len(df.columns)} |->
        [k \in 1..Len(df.rows) |-> df.rows[k][c]]]

analyze_incident_zone(figs, incident_type, start_date, end_date, imagery, sampled) ==
    LET start == Strptime(start_date)
        end == Strptime(end_date)
    IN  IF Raised(start) THEN Analyzed(start, <<"strptime">>, figs)
        ELSE IF Raised(end) THEN Analyzed(end, <<"strptime">>, figs)
        ELSE
    LET s1 == <<"strptime", "analyze_vegetation_and_water">>
        extracted == analyze_vegetation_and_water(imagery)
    IN  IF Raised(extracted) THEN Analyzed(extracted, s1, figs)
        ELSE
    LET pair == Unpack(extracted.value, 2)
    IN  IF Raised(pair) THEN Analyzed(pair, s1, figs)
        ELSE
    LET ndvi_data == pair.value[1]
        ndwi_data == pair.value[2]
        s2 == Append(s1, "analyze_land_cover")
        landcover == analyze_land_cover(sampled)
    IN  IF Raised(landcover) THEN Analyzed(landcover, s2, figs)
        ELSE
    LET landcover_data == landcover.value
        s3 == Append(s2, "generate_ndvi_ndwi_plot")
        p1 == generate_ndvi_ndwi_plot(figs, ndvi_data, ndwi_data)
        s4 == Append(s3, "generate_ndvi_heatmap")
        p2 == generate_ndvi_heatmap(p1.figures, ndvi_data)
    IN  IF Raised(p2.ret) THEN Analyzed(p2.ret, s4, p2.figures)
        ELSE
    LET s5 == Append(s4, "generate_landcover_plot")
        p3 == generate_landcover_plot(p2.figures, landcover_data)
        s6 == Append(s5, "generate_textual_analysis")
        text == generate_textual_analysis(p2.data, ndwi_data, landcover_data,
                                          incident_type)
    IN  IF Raised(text) THEN Analyzed(text, s6, p3.figures)
        ELSE Analyzed(
                Return([textual_analysis |-> text.value,
                        ndvi_ndwi_plot |-> p1.ret.value,
                        ndvi_heatmap |-> p2.ret.value,
                        landcover_plot |-> p3.ret.value,
                        raw_data |-> [ndvi |-> ToDict(p2.data),
                                      ndwi |-> ToDict(ndwi_data),
                                      landcover |-> landcover_data]]),
                Append(s6, "result"), p3.figures)

(* The inputs of analyze_incident_zone. *)

DateStrings ==
    {<<"2", "0", "2", "3", "0", "1", "0", "1">>,
     <<"2", "0", "2", "3", "1", "2", "3", "1">>,
     <<"2", "0", "2", "3", "0", "2", "3", "0">>,
     <<"2", "0", "2", "3", "-", "0", "1">>,
     <<"2", "0", "2", "3", "1", " ", "1">>,
     <<"0", "0", "0", "0", "0", "1", "0", "1">>}

SceneTimes == {9, 40}

AreaMeans == {1, 6}

Scenes ==
    {[lon |-> -8, lat |-> 12, time |-> t, NDVI |-> v, NDWI |-> w] :
        t \in SceneTimes, v \in {3, 7}, w \in {2}}

\* The answers of the imagery service for a collection of scenes: the two
\* region tables list the scenes in the collection's order; a collection
\* without scenes has no band to take a mean of.
ImageryAnswer(scenes, mean) ==
    Return([ndvi_timeseries |-> RegionTable("NDVI", scenes),
            ndwi_timeseries |-> RegionTable("NDWI", scenes),
            ndvi_mean |-> IF Len(scenes) = 0 THEN <<>> ELSE <<<<"NDVI", mean>>>>,
            ndwi_mean |-> IF Len(scenes) = 0 THEN <<>> ELSE <<<<"NDWI", 1>>>>])

SampledAnswers ==
    {Raise("EEException"), Return(<<>>),
     Return(<< <<<<"1", "0">>, 3>> >>),
     Return(<< <<<<"5", "0">>, 3>>, <<<<"1", "0">>, 1>> >>)}

InitAnalysis ==
    \E it \in IncidentTypes, sd \in DateStrings, ed \in DateStrings,
       scenes \in SeqUpTo(Scenes, MaxScenes), mean \in AreaMeans,
       failed \in BOOLEAN, sampled \in SampledAnswers :
        /\ op = "analyze_incident_zone"
        /\ args = [lat |-> 12, lon |-> -8, incident_location |-> "Bamako",
                   incident_type |-> it, start_date |-> sd, end_date |-> ed,
                   imagery |-> IF failed THEN Raise("EEException")
                               ELSE ImageryAnswer(scenes, mean),
                   sampled_data |-> sampled]
        /\ ret = NoCall
        /\ heap = <<>>
        /\ messages = <<[role |-> "assistant", content |-> "How can I help?"]>>
        /\ figures = <<>>
        /\ calls = NoCalls

AnalyzeIncidentZone ==
    /\ op = "analyze_incident_zone"
    /\ ret = NoCall
    /\ LET r == analyze_incident_zone(figures, args.incident_type,
                                      args.start_date, args.end_date,
                                      args.imagery, args.sampled_data)
       IN  /\ ret' = r.ret
           /\ heap' = [stages |-> r.stages]
           /\ figures' = r.figures
    /\ UNCHANGED <<op, args, messages, calls>>

Next == AnalyzeIncidentZone

Spec == InitAnalysis /\ [][Next]_vars

\* The request is valid and both services answered with data.
ValidAnsweredRequest ==
    /\ op = "analyze_incident_zone"
    /\ Returned(Strptime(args.start_date))
    /\ Returned(Strptime(args.end_date))
    /\ DateLE(Strptime(args.start_date).value, Strptime(args.end_date).value)
    /\ Returned(args.imagery)
    /\ Len(args.imagery.value.ndvi_timeseries) > 1
    /\ Returned(args.sampled_data)
    /\ Len(args.sampled_data.value) > 0

\* C1: for a valid request whose imagery and land-cover calls answer with at
\* least one scene and a non-empty histogram, analyze_incident_zone takes the
\* extractor's four-part result and returns one bundle with the narrative,
\* the three charts and the raw data; it never ends in an error.
C1_ValidRequestReturnsBundle ==
    (ValidAnsweredRequest /\ ret # NoCall) =>
        /\ Returned(ret)
        /\ DOMAIN ret.value = {"textual_analysis", "ndvi_ndwi_plot",
                               "ndvi_heatmap", "landcover_plot", "raw_data"}
        /\ DOMAIN ret.value.raw_data = {"ndvi", "ndwi", "landcover"}

----------------------------------------------------------------------------
(* Properties of the narrative (SpecNarrative).                            *)

NarrativeDone == op = "generate_textual_analysis" /\ ret # NoCall

NdviArg == Column(args.ndvi_data, "NDVI")

NdwiArg == Column(args.ndwi_data, "NDWI")

\* The narrative's parts: 3 fragments of heading, 7 of NDVI, 7 of NDWI,
\* 6 of land cover, then the incident-specific fragments.
NdviPart(text) == SubSeq(text, 4, 10)

NdwiPart(text) == SubSeq(text, 11, 17)

IncidentPart(text) == SubSeq(text, 24, Len(text))

InsufficientData == "donnees insuffisantes"

\* C2: generate_textual_analysis never raises on an empty NDVI or NDWI
\* series: it returns a narrative in which each empty index has an
\* 'insufficient data' clause.
C2_EmptySeriesInsufficientData ==
    (NarrativeDone /\ (Len(NdviArg) = 0 \/ Len(NdwiArg) = 0)) =>
        /\ Returned(ret)
        /\ Contains(ret.value, InsufficientData)

\* C4: for non-empty series the reported trend of NDVI and of NDWI is
\* 'augmentation' exactly when the last value is strictly greater than the
\* first, and 'diminution' otherwise (ties and one-entry series included).
C4_TrendStrictLastOverFirst ==
    (NarrativeDone /\ Returned(ret)) =>
        /\ Len(NdviArg) > 0 /\ Len(NdwiArg) > 0
        /\ NdviPart(ret.value)[4] =
              (IF NdviArg[Len(NdviArg)] > NdviArg[1]
               THEN "augmentation" ELSE "diminution")
        /\ NdwiPart(ret.value)[4] =
              (IF NdwiArg[Len(NdwiArg)] > NdwiArg[1]
               THEN "augmentation" ELSE "diminution")

\* A three-entry NDVI series with equal ends and a larger middle value, and
\* a one-entry NDWI series, both reported as 'diminution'.
C4_Witness ==
    /\ NarrativeDone /\ Returned(ret)
    /\ Len(NdviArg) = 3 /\ NdviArg[1] = NdviArg[3] /\ NdviArg[2] > NdviArg[1]
    /\ Len(NdwiArg) = 1
    /\ NdviPart(ret.value)[4] = "diminution"
    /\ NdwiPart(ret.value)[4] = "diminution"

NdviBuckets ==
    {"generalement bonne.\n", "moderee.\n",
     "potentiellement faible ou une zone avec peu de vegetation.\n"}

NdwiBuckets ==
    {"la presence significative d'eau dans la zone.\n",
     "une zone relativement seche ou avec peu d'eau de surface.\n"}

BucketsIn(text, buckets) == {i \in 1..Len(text) : text[i] \in buckets}

\* The bucket text of each index in the narrative is the one its mean
\* selects, and no other bucket text of that index is in the narrative.
BucketsAgree(text, avg_ndvi, avg_ndwi) ==
    /\ NdviPart(text)[7] =
          (IF FloatGT(avg_ndvi, Double(5)) THEN "generalement bonne.\n"
           ELSE IF FloatGT(avg_ndvi, Double(3)) THEN "moderee.\n"
           ELSE "potentiellement faible ou une zone avec peu de vegetation.\n")
    /\ NdwiPart(text)[7] =
          (IF FloatGT(avg_ndwi, Double(0))
           THEN "la presence significative d'eau dans la zone.\n"
           ELSE "une zone relativement seche ou avec peu d'eau de surface.\n")
    /\ Cardinality(BucketsIn(text, NdviBuckets)) = 1
    /\ Cardinality(BucketsIn(text, NdwiBuckets)) = 1

\* C5: the bucket texts partition the mean the narrative computes, with
\* exclusive upper thresholds (NDVI: > 0.5 good, > 0.3 and <= 0.5 moderate,
\* <= 0.3 low; NDWI: > 0 water, <= 0 dry), and exactly one bucket text per
\* index is in the narrative.
C5_BucketsPartitionTheMean ==
    (NarrativeDone /\ Returned(ret)) =>
        BucketsAgree(ret.value, SeriesMean(NdviArg), SeriesMean(NdwiArg))

\* An NDVI mean of exactly 0.5 over two entries reported as moderate, with
\* an NDWI mean of exactly 0 reported as dry.
C5_Witness ==
    /\ NarrativeDone /\ Returned(ret)
    /\ Len(NdviArg) = 2 /\ SumSeq(NdviArg) = 10
    /\ SeriesMean(NdviArg)[3] = 0
    /\ Len(NdwiArg) = 2 /\ SumSeq(NdwiArg) = 0
    /\ SeriesMean(NdwiArg)[3] = 0
    /\ NdviPart(ret.value)[7] = "moderee.\n"
    /\ NdwiPart(ret.value)[7] =
          "une zone relativement seche ou avec peu d'eau de surface.\n"

\* C6: for 'Deforestation' the incident part depends on the tree-cover class
\* and the NDVI trend: class present -> its share of the total count, then
\* possible active deforestation on a decreasing NDVI and no support for
\* active deforestation on an increasing one; class absent -> the absence
\* is noted whatever the trend.
C6_DeforestationSection ==
    (NarrativeDone /\ Returned(ret) /\ args.incident_type = "Deforestation") =>
        LET part == IncidentPart(ret.value)
            lc == args.landcover_data
            increasing == NdviArg[Len(NdviArg)] > NdviArg[1]
            active == "potentiellement liee a des activites de deforestation."
            notActive == "ce qui pourrait suggerer que la deforestation n'est pas active ou est compensee par la croissance ailleurs."
            absent == "la zone ne semble pas avoir une couverture forestiere significative actuellement. "
        IN  /\ Len(part) > 0
            /\ part[1] = "\nEn ce qui concerne la deforestation, "
            /\ DictHas(lc, TreeCover) =>
                  /\ part[2] = "la zone presente actuellement "
                  /\ part[3] = FormatFixed(Percent(DictGet(lc, TreeCover),
                                                    SumSeq(DictValues(lc))), 1)
                  /\ part[4] = "% de couverture arboree. "
                  /\ ~Contains(part, absent)
                  /\ Contains(part, active) <=> ~increasing
                  /\ Contains(part, notActive) <=> increasing
            /\ ~DictHas(lc, TreeCover) =>
                  /\ part[2] = absent
                  /\ ~Contains(part, active)
                  /\ ~Contains(part, notActive)

\* Tree cover is 1 of 4 sampled pixels (25.0 %), the NDVI rises, and the
\* narrative says the NDVI does not support active deforestation.
C6_Witness ==
    /\ NarrativeDone /\ Returned(ret) /\ args.incident_type = "Deforestation"
    /\ args.landcover_data = <<<<"Zones baties", 3>>, <<TreeCover, 1>>>>
    /\ NdviArg[Len(NdviArg)] > NdviArg[1]
    /\ IncidentPart(ret.value)[3] = "25.0"
    /\ Contains(IncidentPart(ret.value),
                "Malgre la preoccupation de deforestation, le NDVI ne montre pas de tendance a la baisse, ")

\* The fragments that say in so many words that pollution is not
\* established by the satellite analysis.
CannotConfirmPollution ==
    {"Cependant, cela n'exclut pas la possibilite de pollution, qui necessiterait des analyses in situ pour etre confirmee."}

\* C7: whenever the water-pollution branch is taken, the narrative states
\* explicitly that the satellite analysis cannot confirm pollution, in each
\* of its three sub-cases.
C7_PollutionLimitationStated ==
    (NarrativeDone /\ Returned(ret)
        /\ args.incident_type = "Pollution de l'eau") =>
        \E i \in 1..Len(IncidentPart(ret.value)) :
            IncidentPart(ret.value)[i] \in CannotConfirmPollution

----------------------------------------------------------------------------
(* Properties of the chat history (SpecChat).                              *)

\* C11: every chat call leaves the user's turn in the conversation history,
\* whether the completion call succeeded or failed: once a get_response call
\* has returned, the module-level messages hold its prompt followed at once
\* by the reply or fallback it returned; after a chat_response call whose
\* completion call failed, the chat_history of the session holds the prompt.
C11_HistoryRecordsEveryUserTurn ==
    /\ op = "get_response" =>
          \E k \in 1..(Len(messages) - 1) :
              /\ messages[k] = Message("user", args.prompt)
              /\ messages[k + 1] = Message("assistant", ret.value)
    /\ (op = "chat_response" /\ Len(heap.requests) = 1
           /\ Raised(args.completion)) =>
          Contains(heap.chat_history, Message("user", args.prompt))

----------------------------------------------------------------------------
(* Two requests rendering at the same time.  Each request runs one         *)
(* renderer, one pyplot call at a time; the calls of the two requests      *)
(* interleave.  pyplot's registry and its current figure belong to the     *)
(* process, not to the request.                                            *)

Requests == {1, 2}

\* plt.gcf(): the current figure; a figure of the default size is opened
\* when the registry is empty.
Gcf(figs) == IF Len(figs) = 0 THEN PltFigure(figs, <<64, 48>>) ELSE figs

\* The pyplot calls and DataFrame updates of a renderer, in program order
\* (lines 148-169 and 177-198).
RenderProgram(a) ==
    IF a.fn = "generate_ndvi_ndwi_plot"
    THEN << [call |-> "figure", figsize |-> <<12, 6>>],
            [call |-> "draw",
             artist |-> [plot |-> "NDVI (vegetation)",
                         x |-> Column(a.ndvi_data, "Date"),
                         y |-> Column(a.ndvi_data, "NDVI")]],
            [call |-> "draw",
             artist |-> [plot |-> "NDWI (eau)",
                         x |-> Column(a.ndwi_data, "Date"),
                         y |-> Column(a.ndwi_data, "NDWI")]],
            [call |-> "set", prop |-> "xaxis.major_locator",
             value |-> <<"MonthLocator(interval=3)">>],
            [call |-> "set", prop |-> "xaxis.major_formatter",
             value |-> <<"DateFormatter('%b %Y')">>],
            [call |-> "set", prop |-> "xticks",
             value |-> <<"rotation=45", "ha='right'">>],
            [call |-> "set", prop |-> "xlabel", value |-> <<"Date">>],
            [call |-> "set", prop |-> "ylabel", value |-> <<"Valeur de l'indice">>],
            [call |-> "set", prop |-> "title",
             value |-> <<"Series temporelles du NDVI et du NDWI">>],
            [call |-> "legend"],
            [call |-> "set", prop |-> "grid", value |-> <<"True">>],
            [call |-> "set", prop |-> "layout", value |-> <<"tight">>],
            [call |-> "savefig"],
            [call |-> "close"] >>
    ELSE << [call |-> "calendar"],
            [call |-> "figure", figsize |-> <<12, 8>>],
            [call |-> "heatmap"],
            [call |-> "set", prop |-> "title",
             value |-> <<"Carte thermique du NDVI (12 derniers mois)">>],
            [call |-> "set", prop |-> "xlabel", value |-> <<"Mois">>],
            [call |-> "set", prop |-> "ylabel", value |-> <<"Jour du mois">>],
            [call |-> "set", prop |-> "layout", value |-> <<"tight">>],
            [call |-> "savefig"],
            [call |-> "close"] >>

\* The call request t is about to make.
NextCall(t) ==
    IF ret[t] # NoCall THEN "done" ELSE RenderProgram(args[t])[heap.pc[t]].call

Advance(t) == [heap.pc EXCEPT ![t] = @ + 1]

ConcurrentRows == {<<>>, <<<<<<2023, 1, 5>>, 3>>>>, <<<<<<2023, 2, 5>>, 7>>>>}

InitConcurrent ==
    \E fn1, fn2 \in {"generate_ndvi_ndwi_plot", "generate_ndvi_heatmap"},
       rows1, rows2 \in ConcurrentRows :
        LET request(fn, rows) ==
                [fn |-> fn, ndvi_data |-> FrameOf("NDVI", rows),
                 ndwi_data |-> FrameOf("NDWI", rows)]
        IN  /\ op = "concurrent renders"
            /\ args = <<request(fn1, rows1), request(fn2, rows2)>>
            /\ ret = <<NoCall, NoCall>>
            /\ heap = [pc |-> <<1, 1>>,
                       ndvi_data |-> <<args[1].ndvi_data, args[2].ndvi_data>>,
                       img_str |-> <<NoCall, NoCall>>]
            /\ messages = <<[role |-> "assistant", content |-> "How can I help?"]>>
            /\ figures = <<>>
            /\ calls = NoCalls

\* Lines 177-183: the calendar columns, added to the request's own frame.
CalendarStep(t) ==
    /\ NextCall(t) = "calendar"
    /\ heap' = [heap EXCEPT !.pc = Advance(t),
                            !.ndvi_data[t] = WithCalendarColumns(@)]
    /\ UNCHANGED <<op, args, ret, messages, calls, figures>>

\* plt.figure(figsize=...)
FigureStep(t) ==
    /\ NextCall(t) = "figure"
    /\ figures' = PltFigure(figures, RenderProgram(args[t])[heap.pc[t]].figsize)
    /\ heap' = [heap EXCEPT !.pc = Advance(t)]
    /\ UNCHANGED <<op, args, ret, messages, calls>>

\* plt.plot: drawn into whatever figure is current.
DrawStep(t) ==
    /\ NextCall(t) = "draw"
    /\ figures' = PltDraw(Gcf(figures), RenderProgram(args[t])[heap.pc[t]].artist)
    /\ heap' = [heap EXCEPT !.pc = Advance(t)]
    /\ UNCHANGED <<op, args, ret, messages, calls>>

\* plt.gca().xaxis.set_major_locator, plt.xticks, plt.xlabel, plt.title,
\* plt.grid, plt.tight_layout, ...: set on whatever figure is current.
SetStep(t) ==
    /\ NextCall(t) = "set"
    /\ figures' = PltSet(Gcf(figures), RenderProgram(args[t])[heap.pc[t]].prop,
                         RenderProgram(args[t])[heap.pc[t]].value)
    /\ heap' = [heap EXCEPT !.pc = Advance(t)]
    /\ UNCHANGED <<op, args, ret, messages, calls>>

\* plt.legend(): the legend of whatever figure is current.
LegendStep(t) ==
    /\ NextCall(t) = "legend"
    /\ figures' = PltLegend(Gcf(figures))
    /\ heap' = [heap EXCEPT !.pc = Advance(t)]
    /\ UNCHANGED <<op, args, ret, messages, calls>>

\* Lines 185-188: the pivot table and sns.heatmap, which raises on an empty
\* pivot before it asks for the current axes.
HeatmapStep(t) ==
    /\ NextCall(t) = "heatmap"
    /\ LET heatmap_data == PivotTable(heap.ndvi_data[t])
       IN  IF heatmap_data = {}
           THEN /\ ret' = [ret EXCEPT ![t] = Raise("ValueError")]
                /\ UNCHANGED <<heap, figures>>
           ELSE /\ figures' = PltDraw(Gcf(figures), [heatmap |-> heatmap_data])
                /\ heap' = [heap EXCEPT !.pc = Advance(t)]
                /\ UNCHANGED ret
    /\ UNCHANGED <<op, args, messages, calls>>

\* plt.savefig(img_buffer, format='png') and the base64 encoding.
SaveFigStep(t) ==
    /\ NextCall(t) = "savefig"
    /\ figures' = Gcf(figures)
    /\ heap' = [heap EXCEPT !.pc = Advance(t),
                            !.img_str[t] = PltSaveFig(Gcf(figures))]
    /\ UNCHANGED <<op, args, ret, messages, calls>>

\* plt.close() closes the current figure, if there is one; return img_str.
CloseStep(t) ==
    /\ NextCall(t) = "close"
    /\ figures' = IF Len(figures) = 0 THEN figures ELSE PltClose(figures)
    /\ ret' = [ret EXCEPT ![t] = Return(heap.img_str[t])]
    /\ UNCHANGED <<op, args, heap, messages, calls>>

NextConcurrent ==
    \E t \in Requests :
        \/ CalendarStep(t)
        \/ FigureStep(t)
        \/ DrawStep(t)
        \/ SetStep(t)
        \/ LegendStep(t)
        \/ HeatmapStep(t)
        \/ SaveFigStep(t)
        \/ CloseStep(t)

SpecConcurrent == InitConcurrent /\ [][NextConcurrent]_vars

\* What request t gets when it runs alone.
RendersAlone(t) ==
    IF args[t].fn = "generate_ndvi_ndwi_plot"
    THEN generate_ndvi_ndwi_plot(<<>>, args[t].ndvi_data, args[t].ndwi_data).ret
    ELSE generate_ndvi_heatmap(<<>>, args[t].ndvi_data).ret

\* C12: under every interleaving of two concurrent requests, the outcome of
\* each request's render is the one its own input determines: nothing the
\* other request does between creating, drawing, saving and closing a
\* figure shows in it.
C12_ConcurrentRequestsIsolated ==
    \A t \in Requests : ret[t] # NoCall => ret[t] = RendersAlone(t)

\* A request that ran before the other one started gets what it gets alone.
SerialRendersAgree ==
    \A t \in Requests :
        (ret[t] # NoCall /\ \A u \in Requests \ {t} : heap.pc[u] = 1)
            => ret[t] = RendersAlone(t)

----------------------------------------------------------------------------
(* The extractor on its own, and generate_textual_analysis given the two   *)
(* series of an extractor result.  analyze_incident_zone never makes that  *)
(* call: line 48 raises on the four-part result before line 57 is reached. *)

ExtractHistograms ==
    {<<<<TreeCover, 3>>>>, <<<<"Zones baties", 3>>, <<TreeCover, 1>>>>}

ExtractScenes ==
    {[lon |-> -8, lat |-> 12, time |-> t, NDVI |-> v, NDWI |-> w] :
        t \in SceneTimes, v \in {3, 7}, w \in {-2, 2}}

\* A call of analyze_vegetation_and_water whose four getInfo() answers are
\* bound, not yet run.  The service lists the scenes in any order.
InitExtract ==
    \E scenes \in SeqUpTo(ExtractScenes, MaxScenes), mean \in AreaMeans,
       failed \in BOOLEAN :
        /\ op = "analyze_vegetation_and_water"
        /\ args = [imagery |-> IF failed THEN Raise("EEException")
                               ELSE ImageryAnswer(scenes, mean)]
        /\ ret = NoCall
        /\ heap = <<>>
        /\ messages = <<[role |-> "assistant", content |-> "How can I help?"]>>
        /\ figures = <<>>
        /\ calls = NoCalls

AnalyzeVegetationAndWater ==
    /\ op = "analyze_vegetation_and_water"
    /\ ret = NoCall
    /\ ret' = analyze_vegetation_and_water(args.imagery)
    /\ heap' = [extracted |-> ret']
    /\ UNCHANGED <<op, args, messages, calls, figures>>

NextExtract == AnalyzeVegetationAndWater

SpecExtract == InitExtract /\ [][NextExtract]_vars

\* A call of generate_textual_analysis, not yet run, whose two frames are
\* the series of a result of the extractor; the result is kept beside it.
InitReport ==
    \E scenes \in SeqUpTo(ExtractScenes, MaxScenes), mean \in AreaMeans,
       lc \in ExtractHistograms, it \in IncidentTypes :
        LET extracted == analyze_vegetation_and_water(ImageryAnswer(scenes, mean))
        IN  /\ Returned(extracted)
            /\ op = "generate_textual_analysis"
            /\ args = [ndvi_data |-> extracted.value[1],
                       ndwi_data |-> extracted.value[2],
                       landcover_data |-> lc,
                       incident_type |-> it]
            /\ ret = NoCall
            /\ heap = [extracted |-> extracted]
            /\ messages = <<[role |-> "assistant", content |-> "How can I help?"]>>
            /\ figures = <<>>
            /\ calls = NoCalls

SpecReport == InitReport /\ [][NextNarrative]_vars

\* The extractor returned its four-part result.
Extracted == heap # <<>> /\ Returned(heap.extracted)

\* The narrative reports the two means to two decimals and buckets them.
ReportsMeans(text, ndvi_mean, ndwi_mean) ==
    /\ NdviPart(text)[2] = FormatFixed(ndvi_mean, 2)
    /\ NdwiPart(text)[2] = FormatFixed(ndwi_mean, 2)
    /\ BucketsAgree(text, ndvi_mean, ndwi_mean)

\* C13: the mean the narrative reports and buckets for NDVI and for NDWI is
\* the area mean the extractor computed over the buffered area (ndvi_mean,
\* ndwi_mean), not a mean recomputed from the point series.  The area means
\* are in tenths.
C13_NarrativeReportsAreaMean ==
    (NarrativeDone /\ Extracted /\ Returned(ret)) =>
        ReportsMeans(ret.value, Double(heap.extracted.value[3]),
                     Double(heap.extracted.value[4]))

\* C14: whatever the order in which the service lists the scenes, the
\* extractor returns two series of the same length whose entries carry the
\* same dates, in non-decreasing order.
C14_SeriesAlignedAndDateOrdered ==
    Extracted =>
        LET ndvi_dates == Column(heap.extracted.value[1], "Date")
            ndwi_dates == Column(heap.extracted.value[2], "Date")
        IN  /\ Len(ndvi_dates) = Len(ndwi_dates)
            /\ ndvi_dates = ndwi_dates
            /\ \A i, j \in 1..Len(ndvi_dates) :
                  i <= j => DateLE(ndvi_dates[i], ndvi_dates[j])

\* The half of C14 that does not depend on the listing order.
SeriesAligned ==
    Extracted =>
        Column(heap.extracted.value[1], "Date")
            = Column(heap.extracted.value[2], "Date")

----------------------------------------------------------------------------
(* Properties of the renderers' effect on their input (SpecRender).        *)

\* C15: generate_ndvi_heatmap leaves the NDVI series it is given unchanged:
\* after the call the caller's frame, the one analyze_incident_zone puts in
\* raw_data, still holds exactly the (Date, NDVI) entries of the extractor,
\* with no field added, removed or altered.
C15_HeatmapLeavesSeriesUnchanged ==
    op = "generate_ndvi_heatmap" =>
        /\ heap.ndvi_data = args.ndvi_data
        /\ heap.ndvi_data.columns = <<"Date", "NDVI">>

----------------------------------------------------------------------------
(* Properties of the stage order of analyze_incident_zone (Spec).          *)

\* The stages of lines 44-72, in program order.
StageOrder ==
    << "strptime", "analyze_vegetation_and_water", "analyze_land_cover",
       "generate_ndvi_ndwi_plot", "generate_ndvi_heatmap",
       "generate_landcover_plot", "generate_textual_analysis", "result" >>

AnalysisDone == op = "analyze_incident_zone" /\ ret # NoCall

DatesParsed ==
    Returned(Strptime(args.start_date)) /\ Returned(Strptime(args.end_date))

\* The dates parse and the extractor returns its result: the invocation
\* comes to the land-cover call.
ExtractionAnswered ==
    DatesParsed /\ Returned(analyze_vegetation_and_water(args.imagery))

\* C16: one invocation of analyze_incident_zone runs its stages in program
\* order: extraction, land-cover sampling, the three renders, the
\* narrative, the bundle.  When the imagery call fails the invocation ends
\* with that failure in the extraction stage; when the extraction has
\* answered and the land-cover call fails it ends with that failure in the
\* land-cover stage; no later stage runs, a bundle is returned only after
\* every stage has run, and a valid request whose services answer runs
\* every stage.
C16_StagesInOrderFailureEndsInvocation ==
    AnalysisDone =>
        LET stages == heap.stages
            n == Len(stages)
        IN  /\ n >= 1 /\ n <= Len(StageOrder)
            /\ stages = SubSeq(StageOrder, 1, n)
            /\ (DatesParsed /\ Raised(args.imagery)) =>
                  /\ ret = args.imagery
                  /\ stages[n] = "analyze_vegetation_and_water"
            /\ (ExtractionAnswered /\ Raised(args.sampled_data)) =>
                  /\ ret = args.sampled_data
                  /\ stages[n] = "analyze_land_cover"
            /\ Returned(ret) <=> stages[n] = "result"
            /\ ValidAnsweredRequest => stages = StageOrder

\* The part of C16 that the code keeps: the stages entered are the first
\* stages of the order, a failed imagery call ends the invocation with the
\* service's exception in the extraction stage, and nothing is returned
\* before the last stage.
ImageryFailureEndsInvocation ==
    AnalysisDone =>
        /\ heap.stages = SubSeq(StageOrder, 1, Len(heap.stages))
        /\ (DatesParsed /\ Raised(args.imagery)) =>
              /\ ret = args.imagery
              /\ heap.stages = <<"strptime", "analyze_vegetation_and_water">>
        /\ Returned(ret) => heap.stages = StageOrder

====
